---- MODULE Spec2Model ----
(***************************************************************************)
(* The three console agents of agent-guide/examples/code:                  *)
(*   simple_agent.py, function_calling_demo.py, react_agent_demo.py.       *)
(*                                                                         *)
(* Spec      models main(): the read / test / send / print loop.           *)
(* ToolSpec  models the tool functions the two tool scripts hand to the    *)
(*           chat configuration, applied to argument mappings.             *)
(*                                                                         *)
(* A Python str is modelled as a sequence of chunks (TLA+ strings).  Text  *)
(* that the code inspects character by character (the input line, a        *)
(* search query) is written one character per chunk; text that the code    *)
(* only copies (a reply, an exception message) is written as one chunk.    *)
(***************************************************************************)
EXTENDS Integers, Sequences, FiniteSets, TLC

VARIABLES
    script,       \* which of the three scripts is running
    pc,           \* position of main(): "input", "send_message", "exited"
    user_input,   \* main's local user_input (the line last read)
    consumed,     \* the lines read from stdin so far, in order
    sent,         \* the arguments of the chat.send_message calls so far
    result,       \* how the last chat.send_message call ended
    stdout,       \* everything printed so far, one entry per print/prompt
    tool_call,    \* ToolSpec: the tool call being made
    tool_result,  \* ToolSpec: how that call ended
    effects       \* ToolSpec: what evaluated code did besides computing

vars == <<script, pc, user_input, consumed, sent, result, stdout,
          tool_call, tool_result, effects>>

loopVars == <<script, pc, user_input, consumed, sent, result, stdout>>
toolVars == <<tool_call, tool_result, effects>>

\* Bound of the model: how many lines one run reads from stdin.
MaxTurns == 3

-----------------------------------------------------------------------------
(* Python str operations used by main() and search().                      *)

UpperToLower ==
    [c \in {"A","B","C","D","E","F","G","H","I","J","K","L","M",
            "N","O","P","Q","R","S","T","U","V","W","X","Y","Z"} |->
       CASE c = "A" -> "a" [] c = "B" -> "b" [] c = "C" -> "c" [] c = "D" -> "d"
         [] c = "E" -> "e" [] c = "F" -> "f" [] c = "G" -> "g" [] c = "H" -> "h"
         [] c = "I" -> "i" [] c = "J" -> "j" [] c = "K" -> "k" [] c = "L" -> "l"
         [] c = "M" -> "m" [] c = "N" -> "n" [] c = "O" -> "o" [] c = "P" -> "p"
         [] c = "Q" -> "q" [] c = "R" -> "r" [] c = "S" -> "s" [] c = "T" -> "t"
         [] c = "U" -> "u" [] c = "V" -> "v" [] c = "W" -> "w" [] c = "X" -> "x"
         [] c = "Y" -> "y" [] c = "Z" -> "z"]

\* str.lower(): every cased character replaced by its lowercase form.
lower(s) ==
    [i \in 1..Len(s) |-> IF s[i] \in DOMAIN UpperToLower THEN UpperToLower[s[i]] ELSE s[i]]

\* The characters str.strip() removes when called without an argument.
Whitespace == {" ", "\t", "\n", "\r"}

RECURSIVE lstrip(_)
lstrip(s) ==
    IF s # <<>> /\ Head(s) \in Whitespace THEN lstrip(Tail(s)) ELSE s

RECURSIVE rstrip(_)
rstrip(s) ==
    IF s # <<>> /\ s[Len(s)] \in Whitespace THEN rstrip(SubSeq(s, 1, Len(s) - 1)) ELSE s

\* str.strip(): leading and trailing whitespace removed.
strip(s) == rstrip(lstrip(s))

-----------------------------------------------------------------------------
(* Python values, as far as the tool functions handle them.                *)

\* A value: its type, its characters (str), its number n/d (int, float).
PyStr(s)      == [type |-> "str",      s |-> s,    n |-> 0, d |-> 1]
PyInt(n)      == [type |-> "int",      s |-> <<>>, n |-> n, d |-> 1]
PyFloat(n, d) == [type |-> "float",    s |-> <<>>, n |-> n, d |-> d]
None        == [type |-> "NoneType", s |-> <<>>, n |-> 0, d |-> 1]
Builtin(id) == [type |-> "builtin_function_or_method",
                s |-> <<"<built-in function ", id, ">">>, n |-> 0, d |-> 1]

IsNumber(v) == v.type \in {"int", "float"}

DigitChars == <<"0","1","2","3","4","5","6","7","8","9">>

RECURSIVE Digits(_)
Digits(n) ==
    IF n < 10 THEN <<DigitChars[n + 1]>>
    ELSE Append(Digits(n \div 10), DigitChars[(n % 10) + 1])

Decimal(n) == IF n < 0 THEN <<"-">> \o Digits(-n) ELSE Digits(n)

\* str(v), which is also what an f-string field {v} produces.  A float that
\* is not a whole number is produced by none of the Sources below.
str(v) ==
    CASE v.type = "str"      -> v.s
      [] v.type = "int"      -> Decimal(v.n)
      [] v.type = "float" /\ v.n % v.d = 0 -> Decimal(v.n \div v.d) \o <<".", "0">>
      [] v.type = "NoneType" -> <<"None">>
      [] v.type = "builtin_function_or_method" -> v.s

\* How an evaluation or a call ends: raised = "" and a value, or the class
\* and message of the exception leaving it.  body_raised is the class of an
\* exception raised inside a tool body, whether or not the body caught it.
Returns(v, eff)   == [raised |-> "", msg |-> <<>>, value |-> v, effects |-> eff,
                      body_raised |-> ""]
Raises(cls, m, eff) == [raised |-> cls, msg |-> m, value |-> None, effects |-> eff,
                        body_raised |-> ""]

\* Exception classes that derive from Exception; SystemExit and
\* KeyboardInterrupt derive from BaseException only.
ExceptionClasses ==
    {"TypeError", "SyntaxError", "NameError", "ZeroDivisionError", "AttributeError"}

\* What "except Exception" catches.
ExceptException(cls) == cls \in ExceptionClasses

-----------------------------------------------------------------------------
(* eval(expression): the parse of the source text, then its evaluation.    *)

Constant(v)     == [node |-> "Constant", value |-> v,    op |-> "",  args |-> <<>>]
BinOp(l, op, r) == [node |-> "BinOp",    value |-> None, op |-> op,  args |-> <<l, r>>]
Name(id)        == [node |-> "Name",     value |-> None, op |-> id,  args |-> <<>>]
Call(f, a)      == [node |-> "Call",     value |-> None, op |-> f,   args |-> a]
Invalid         == [node |-> "Invalid",  value |-> None, op |-> "",  args |-> <<>>]

\* Source texts a model may put into a calculate call.
Src_Product   == <<"15 * 24">>
Src_Nested    == <<"(2 + 3) * 4 - 1">>
Src_Quotient  == <<"6 / 3">>
Src_DivZero   == <<"1 / 0">>
Src_Truncated == <<"2 +">>
Src_Abs       == <<"abs(0 - 3)">>
Src_Exit      == <<"exit()">>
Src_System    == <<"__import__('os').system('id')">>

\* Search queries (also usable, as any str, as an expression).
Qry_Ai        == <<"a","i">>
Qry_Gemini    == <<"G","e","m","i","n","i">>
Qry_GeminiAi  == <<"g","e","m","i","n","i"," ","A","I">>
Qry_Go        == <<"g","o">>

Sources == {Src_Product, Src_Nested, Src_Quotient, Src_DivZero, Src_Truncated,
            Src_Abs, Src_Exit, Src_System}
Queries == {Qry_Ai, Qry_Gemini, Qry_GeminiAi, Qry_Go}

\* The syntax tree Python's parser builds for each text (Invalid: SyntaxError).
PyParse(src) ==
    CASE src = Src_Product   -> BinOp(Constant(PyInt(15)), "*", Constant(PyInt(24)))
      [] src = Src_Nested    ->
           BinOp(BinOp(BinOp(Constant(PyInt(2)), "+", Constant(PyInt(3))), "*",
                       Constant(PyInt(4))), "-", Constant(PyInt(1)))
      [] src = Src_Quotient  -> BinOp(Constant(PyInt(6)), "/", Constant(PyInt(3)))
      [] src = Src_DivZero   -> BinOp(Constant(PyInt(1)), "/", Constant(PyInt(0)))
      [] src = Src_Truncated -> Invalid
      [] src = Src_Abs       ->
           Call("abs", <<BinOp(Constant(PyInt(0)), "-", Constant(PyInt(3)))>>)
      [] src = Src_Exit      -> Call("exit", <<>>)
      [] src = Src_System    -> Call("os.system", <<Constant(PyStr(<<"id">>))>>)
      [] src = Qry_Ai        -> Name("ai")
      [] src = Qry_Gemini    -> Name("Gemini")
      [] src = Qry_GeminiAi  -> Invalid
      [] src = Qry_Go        -> Name("go")

Builtins == {"abs", "exit"}

\* l op r on numbers; / is true division and always gives a float.
Arith(l, op, r) ==
    LET float == l.type = "float" \/ r.type = "float" \/ op = "/"
        num == CASE op = "+" -> l.n * r.d + r.n * l.d
                 [] op = "-" -> l.n * r.d - r.n * l.d
                 [] op = "*" -> l.n * r.n
                 [] op = "/" -> l.n * r.d
        den == IF op = "/" THEN l.d * r.n ELSE l.d * r.d
    IN  IF op = "/" /\ r.n = 0
          THEN Raises("ZeroDivisionError", <<"division by zero">>, {})
        ELSE IF float
          THEN Returns(IF den < 0 THEN PyFloat(-num, -den) ELSE PyFloat(num, den), {})
          ELSE Returns(PyInt(num), {})

\* Calling a builtin with evaluated arguments.
Apply(f, argv) ==
    CASE f = "abs" /\ Len(argv) = 1 /\ IsNumber(argv[1]) ->
           Returns([argv[1] EXCEPT !.n = IF @ < 0 THEN -@ ELSE @], {})
      [] f = "exit" -> Raises("SystemExit", str(IF argv = <<>> THEN None ELSE argv[1]), {})
      [] f = "os.system" /\ Len(argv) = 1 /\ argv[1].type = "str" ->
           Returns(PyInt(0), {<<"os.system", argv[1].s>>})
      [] OTHER -> Raises("TypeError", <<"bad argument for ", f>>, {})

RECURSIVE PyEval(_)
RECURSIVE PyEvalArgs(_)

\* The arguments of a call, left to right, until one raises.
PyEvalArgs(asts) ==
    IF asts = <<>> THEN [raised |-> "", msg |-> <<>>, values |-> <<>>, effects |-> {}]
    ELSE LET first == PyEval(Head(asts))
         IN  IF first.raised # ""
               THEN [raised |-> first.raised, msg |-> first.msg, values |-> <<>>,
                     effects |-> first.effects]
             ELSE LET rest == PyEvalArgs(Tail(asts))
                  IN  [rest EXCEPT !.values = <<first.value>> \o @,
                                   !.effects = first.effects \cup @]

\* Evaluation of a syntax tree in the interpreter's own namespace.
PyEval(ast) ==
    CASE ast.node = "Constant" -> Returns(ast.value, {})
      [] ast.node = "Name" ->
           IF ast.op \in Builtins THEN Returns(Builtin(ast.op), {})
           ELSE Raises("NameError", <<"name '", ast.op, "' is not defined">>, {})
      [] ast.node = "BinOp" ->
           LET a == PyEvalArgs(ast.args)
           IN  IF a.raised # "" THEN Raises(a.raised, a.msg, a.effects)
               ELSE IF IsNumber(a.values[1]) /\ IsNumber(a.values[2])
                 THEN [Arith(a.values[1], ast.op, a.values[2]) EXCEPT !.effects = a.effects]
               ELSE IF ast.op = "+" /\ a.values[1].type = "str" /\ a.values[2].type = "str"
                 THEN Returns(PyStr(a.values[1].s \o a.values[2].s), a.effects)
               ELSE Raises("TypeError",
                           <<"unsupported operand type(s) for ", ast.op>>, a.effects)
      [] ast.node = "Call" ->
           LET a == PyEvalArgs(ast.args)
           IN  IF a.raised # "" THEN Raises(a.raised, a.msg, a.effects)
               ELSE LET r == Apply(ast.op, a.values)
                    IN  [r EXCEPT !.effects = a.effects \cup @]

\* eval(expression)
eval(expression) ==
    IF expression.type # "str"
      THEN Raises("TypeError",
                  <<"eval() arg 1 must be a string, bytes or code object">>, {})
    ELSE LET ast == PyParse(expression.s)
         IN  IF ast.node = "Invalid"
               THEN Raises("SyntaxError", <<"invalid syntax">>, {})
               ELSE PyEval(ast)

-----------------------------------------------------------------------------
(* The tool functions.                                                     *)

\* Readings of datetime.now(): hour, minute, second.
Clock == { <<9, 5, 0>>, <<23, 59, 59>> }

TwoDigits(n) == IF n < 10 THEN <<"0">> \o Digits(n) ELSE Digits(n)

\* strftime("%H:%M:%S")
strftime(now) ==
    TwoDigits(now[1]) \o <<":">> \o TwoDigits(now[2]) \o <<":">> \o TwoDigits(now[3])

\* function_calling_demo.get_current_time
get_current_time(now) == Returns(PyStr(strftime(now)), {})

\* calculate, of both scripts: they differ in the prefix of the error text.
calculate(prefix, expression) ==
    LET r == eval(expression)
    IN  IF r.raised = ""
          THEN Returns(PyStr(str(r.value)), r.effects)
        ELSE IF ExceptException(r.raised)
          THEN [Returns(PyStr(<<prefix>> \o r.msg), r.effects)
                  EXCEPT !.body_raised = r.raised]
          ELSE [r EXCEPT !.body_raised = r.raised]

\* function_calling_demo.search_info
search_info(query) ==
    Returns(PyStr(<<"Search results for '">> \o str(query)
                \o <<"': [Relevant information would appear here]">>), {})

\* key in text: text has key as a contiguous part.
Contains(key, text) ==
    \E i \in 1..(Len(text) - Len(key) + 1) : SubSeq(text, i, i + Len(key) - 1) = key

\* The keys of react_agent_demo.search's results dict, in insertion order.
SearchKeys == << <<"p","y","t","h","o","n">>, <<"a","i">>, <<"g","e","m","i","n","i">> >>

SearchResults(key) ==
    CASE key = SearchKeys[1] ->
           <<"Python is a high-level programming language created by Guido van Rossum in 1991.">>
      [] key = SearchKeys[2] ->
           <<"Artificial Intelligence is the simulation of human intelligence by machines.">>
      [] key = SearchKeys[3] ->
           <<"Gemini is Google's family of multimodal AI models.">>

\* react_agent_demo.search
search(query) ==
    IF query.type # "str"
      THEN [Raises("AttributeError",
                   <<"'", query.type, "' object has no attribute 'lower'">>, {})
              EXCEPT !.body_raised = "AttributeError"]
    ELSE LET hits == {i \in 1..Len(SearchKeys) : Contains(SearchKeys[i], lower(query.s))}
         IN  IF hits # {}
               THEN Returns(PyStr(SearchResults(
                        SearchKeys[CHOOSE i \in hits : \A j \in hits : i <= j])), {})
               ELSE Returns(PyStr(<<"Search results for '">> \o str(query)
                                \o <<"': Information about ">> \o str(query)), {})

\* The tools each script hands to client.chats.create.
Tools(s) ==
    CASE s = "function_calling_demo" -> {"get_current_time", "calculate", "search_info"}
      [] s = "react_agent_demo" -> {"search", "calculate"}
      [] OTHER -> {}

\* The parameters of each tool function, all required.
Params(tool) ==
    CASE tool = "get_current_time" -> {}
      [] tool = "calculate" -> {"expression"}
      [] tool = "search_info" -> {"query"}
      [] tool = "search" -> {"query"}

\* The prefix each script's calculate puts before the exception text.
ErrorPrefix(s) ==
    IF s = "function_calling_demo" THEN "Error: " ELSE "Calculation error: "

\* tool(**args): Python binds the keywords to the parameters, raising
\* TypeError on a missing or an unexpected one, and then runs the body.
Invoke(s, tool, args, now) ==
    IF DOMAIN args # Params(tool)
      THEN Raises("TypeError", <<tool, "() got wrong arguments">>, {})
    ELSE CASE tool = "get_current_time" -> get_current_time(now)
           [] tool = "calculate" -> calculate(ErrorPrefix(s), args["expression"])
           [] tool = "search_info" -> search_info(args["query"])
           [] tool = "search" -> search(args["query"])

ArgNames == {"expression", "query"}

\* Argument values the backend may put into a call: well-typed and not.
ArgValues == {PyStr(t) : t \in Sources \cup Queries} \cup {PyInt(5), None}

\* Argument mappings: any of the names, each with any of the values.
ArgMappings == UNION { [names -> ArgValues] : names \in SUBSET ArgNames }

-----------------------------------------------------------------------------
(* main(): the loop shared by the three scripts.                           *)

Scripts == {"simple_agent", "function_calling_demo", "react_agent_demo"}

\* The list ['exit', 'quit', 'bye'] of the exit test.
ExitWords == { <<"e","x","i","t">>, <<"q","u","i","t">>, <<"b","y","e">> }

\* What main() prints between creating the chat and entering the loop.
Banner(s) ==
    CASE s = "simple_agent" ->
           << <<"Simple Agent started. Type 'exit' to quit.\n", "\n">> >>
      [] s = "function_calling_demo" ->
           << <<"Function Calling Agent started. Type 'exit' to quit.\n", "\n">>,
              <<"Try asking:", "\n">>,
              <<"  - What time is it?", "\n">>,
              <<"  - What is 15 * 24?", "\n">>,
              <<"  - Search for Python tutorials\n", "\n">> >>
      [] s = "react_agent_demo" ->
           << <<"ReAct Agent started. Type 'exit' to quit.\n", "\n">>,
              <<"Try asking:", "\n">>,
              <<"  - What is Python and how popular is it?", "\n">>,
              <<"  - Calculate 15 * 24 + 100", "\n">>,
              <<"  - Tell me about Gemini\n", "\n">> >>

\* input("You: ") writes the prompt without a line end.
Prompt == <<"You: ">>

\* print("Agent: Goodbye!")
Farewell == <<"Agent: Goodbye!", "\n">>

\* print("\nAgent thinking...\n"), react_agent_demo only, before the send.
Thinking == <<"\nAgent thinking...\n", "\n">>

\* print(f"Agent: {response.text}\n")
ReplyLine(text) == <<"Agent: ">> \o text \o <<"\n", "\n">>

\* print(f"Error: {e}\n")
ErrorLine(e) == <<"Error: ">> \o e \o <<"\n", "\n">>

\* Lines the user may type (input() returns the line without its line end).
InputLines ==
    { <<>>, <<" ">>, <<" ", "\t">>,
      <<"e","x","i","t">>, <<"E","X","I","T">>, <<"Q","u","i","t">>, <<"b","Y","e">>,
      <<" ","e","x","i","t">>, <<"b","y","e"," ">>, <<"H","i">>, <<"e","x","i","t","s">> }

\* response.text of a send that returns.
Replies == { <<"Hello!">>, <<"Goodbye!">> }

\* str(e) of a send that raises an Exception: backend unreachable, auth
\* failure, provider error.
Errors == { <<"503 UNAVAILABLE">>, <<"401 UNAUTHENTICATED">> }

NoResult == [kind |-> "none", text |-> <<>>]

\* No tool call made yet.
NoToolCall == [tool |-> "none", args |-> <<>>]
NoToolResult == [raised |-> "", msg |-> <<>>, value |-> None, body_raised |-> ""]

\* Variants of the exit test: without lower(), and with a stray strip().
IsExit_CaseSensitive(line) == line \in ExitWords
IsExit_Trimmed(line) == lower(strip(line)) \in ExitWords

\* user_input.lower() in ['exit', 'quit', 'bye']
IsExit(line) == lower(line) \in ExitWords

\* Variant of the blank test without strip().
IsBlank_NoStrip(line) == line = <<>>

\* not user_input.strip()
IsBlank(line) == strip(line) = <<>>

\* Variant that sends the trimmed line.
Message_Stripped(line) == strip(line)

\* The argument of chat.send_message(user_input).
Message(line) == line

\* Variant in which the exception leaves the loop.
AfterError_Propagates == "exited"

\* Where main() continues after the except clause has printed the error.
AfterError == "input"

Init ==
    /\ script \in Scripts
    /\ pc = "input"
    /\ user_input = <<>>
    /\ consumed = <<>>
    /\ sent = <<>>
    /\ result = NoResult
    /\ stdout = Banner(script)
    /\ tool_call = NoToolCall
    /\ tool_result = NoToolResult
    /\ effects = {}

\* One pass from input() to the break, the continue or the send_message call.
ReadInput(line) ==
    /\ pc = "input"
    /\ Len(consumed) < MaxTurns
    /\ user_input' = line
    /\ consumed' = Append(consumed, line)
    /\ IF IsExit(line)
         THEN /\ stdout' = stdout \o <<Prompt, Farewell>>
              /\ pc' = "exited"
              /\ UNCHANGED <<sent, result>>
         ELSE IF IsBlank(line)
         THEN /\ stdout' = Append(stdout, Prompt)
              /\ pc' = "input"
              /\ UNCHANGED <<sent, result>>
         ELSE /\ stdout' = IF script = "react_agent_demo"
                             THEN stdout \o <<Prompt, Thinking>>
                             ELSE Append(stdout, Prompt)
              /\ sent' = Append(sent, Message(line))
              /\ result' = NoResult
              /\ pc' = "send_message"
    /\ UNCHANGED <<script, toolVars>>

\* chat.send_message returns; the reply is printed.
SendReturns(text) ==
    /\ pc = "send_message"
    /\ result' = [kind |-> "return", text |-> text]
    /\ stdout' = Append(stdout, ReplyLine(text))
    /\ pc' = "input"
    /\ UNCHANGED <<script, user_input, consumed, sent, toolVars>>

\* chat.send_message raises an Exception; the except clause prints it.
SendRaises(e) ==
    /\ pc = "send_message"
    /\ result' = [kind |-> "raise", text |-> e]
    /\ stdout' = Append(stdout, ErrorLine(e))
    /\ pc' = AfterError
    /\ UNCHANGED <<script, user_input, consumed, sent, toolVars>>

Next ==
    \/ \E line \in InputLines : ReadInput(line)
    \/ \E text \in Replies : SendReturns(text)
    \/ \E e \in Errors : SendRaises(e)

Spec == Init /\ [][Next]_vars

-----------------------------------------------------------------------------
(* Tool calls, as a specification of their own.                            *)

ToolInit ==
    /\ script \in {"function_calling_demo", "react_agent_demo"}
    /\ pc = "send_message"
    /\ user_input = <<"H","i">>
    /\ consumed = << <<"H","i">> >>
    /\ sent = << <<"H","i">> >>
    /\ result = NoResult
    /\ stdout = Append(Banner(script), Prompt)
    /\ tool_call = NoToolCall
    /\ tool_result = NoToolResult
    /\ effects = {}

\* One tool call requested by the backend while a send is in progress.
ToolCall(tool, args, now) ==
    /\ tool \in Tools(script)
    /\ LET r == Invoke(script, tool, args, now)
       IN  /\ tool_call' = [tool |-> tool, args |-> args]
           /\ tool_result' = [raised |-> r.raised, msg |-> r.msg, value |-> r.value,
                              body_raised |-> r.body_raised]
           /\ effects' = effects \cup r.effects
    /\ UNCHANGED loopVars

ToolNext ==
    \E tool \in {"get_current_time", "calculate", "search_info", "search"},
       args \in ArgMappings, now \in Clock : ToolCall(tool, args, now)

ToolSpec == ToolInit /\ [][ToolNext]_vars

-----------------------------------------------------------------------------
(* Properties of the main loop, checked under Spec.                        *)

Last(s) == s[Len(s)]

\* The line read by a step that consumes one.
Reads == consumed' # consumed
LineRead == Last(consumed')

\* line spells word when letter case is ignored, character for character.
SameIgnoringCase(line, word) ==
    /\ Len(line) = Len(word)
    /\ \A i \in 1..Len(word) :
          \/ line[i] = word[i]
          \/ line[i] \in DOMAIN UpperToLower /\ UpperToLower[line[i]] = word[i]

ExitKeyword(line) == \E w \in ExitWords : SameIgnoringCase(line, w)

OnlyWhitespace(line) == \A i \in 1..Len(line) : line[i] \in Whitespace

Sendable(line) == ~ExitKeyword(line) /\ ~OnlyWhitespace(line)

\* The printed entries that report the outcome of a send.
IsOutcome(entry) == entry[1] \in {"Agent: ", "Error: "}
Outcomes == SelectSeq(stdout, IsOutcome)

\* C1: a line that spells exit, quit or bye in any letter case makes the loop
\* print "Agent: Goodbye!" and stop; send_message is called neither for that
\* line nor at any later point.
C1_ExitStopsWithoutSend ==
    [][ /\ (Reads /\ ExitKeyword(LineRead)) =>
              /\ pc' = "exited"
              /\ Last(stdout') = Farewell
              /\ \A i \in 1..Len(stdout') :
                    i > Len(stdout) => stdout'[i] \in {Prompt, Farewell}
              /\ sent' = sent
        /\ pc = "exited" => (pc' = "exited" /\ sent' = sent)
      ]_vars

C1_Witness ==
    /\ pc = "exited"
    /\ user_input = <<"E","X","I","T">>
    /\ Len(sent) = 1
    /\ Last(stdout) = Farewell

\* C2: an empty or whitespace-only line causes no send_message call, prints
\* no reply and no error, leaves the session as it was, and the loop is back
\* at input().
C2_BlankIsNoOp ==
    [][ (Reads /\ OnlyWhitespace(LineRead)) =>
              /\ sent' = sent
              /\ result' = result
              /\ stdout' = Append(stdout, Prompt)
              /\ pc' = "input"
      ]_vars

C2_Witness ==
    /\ pc = "input"
    /\ Len(consumed) = 2
    /\ user_input = <<" ", "\t">>
    /\ Len(sent) = 1
    /\ Len(Outcomes) = 1

C9_TurnsSequential ==
    /\ sent = SelectSeq(consumed, Sendable)
    /\ pc \in {"input", "exited"} => Len(Outcomes) = Len(sent)
    /\ pc = "send_message" => Len(Outcomes) + 1 = Len(sent)
    /\ pc = "input" /\ result.kind = "return" => Last(Outcomes) = ReplyLine(result.text)
    /\ pc = "input" /\ result.kind = "raise" => Last(Outcomes) = ErrorLine(result.text)

C9_Witness ==
    /\ pc = "input"
    /\ consumed = << <<"b","y","e"," ">>, <<" ">>, <<"H","i">> >>
    /\ sent = << <<"b","y","e"," ">>, <<"H","i">> >>
    /\ Outcomes = << ErrorLine(<<"401 UNAUTHENTICATED">>), ReplyLine(<<"Hello!">>) >>

\* C10: the loop stops on a line exactly when the untrimmed line spells an
\* exit keyword (letter case ignored); a keyword with whitespace around it
\* does not stop the loop and is sent as an ordinary message.
C10_ExitTestOnRawLine ==
    [][ Reads =>
          /\ pc' = "exited" <=> ExitKeyword(LineRead)
          /\ (~ExitKeyword(LineRead) /\ ExitKeyword(strip(LineRead))) =>
                /\ pc' = "send_message"
                /\ sent' = Append(sent, LineRead)
      ]_vars

C10_Witness ==
    /\ pc = "send_message"
    /\ user_input = <<" ","e","x","i","t">>
    /\ Last(sent) = <<" ","e","x","i","t">>

-----------------------------------------------------------------------------
(* Properties of the tool calls, checked under ToolSpec.                   *)

\* A returned text that reports a failure.
FailureFlavoured(v) ==
    /\ v.type = "str"
    /\ v.s # <<>>
    /\ v.s[1] \in {"Error: ", "Calculation error: "}

Called == tool_call # NoToolCall

\* A required argument is missing, or an argument is not of the declared type.
Malformed(call) ==
    \/ Params(call.tool) \ DOMAIN call.args # {}
    \/ \E a \in Params(call.tool) \cap DOMAIN call.args : call.args[a].type # "str"

\* An expression over numeric literals, + - * / and parentheses.
RECURSIVE IsArithmetic(_)
IsArithmetic(ast) ==
    \/ ast.node = "Constant" /\ IsNumber(ast.value)
    \/ /\ ast.node = "BinOp"
       /\ ast.op \in {"+", "-", "*", "/"}
       /\ \A i \in 1..Len(ast.args) : IsArithmetic(ast.args[i])

\* C5: when a tool body raises, the call returns a text that reports the
\* failure and carries its description; nothing is propagated to the caller.
C5_RaisingBodyReturnsFailure ==
    (Called /\ tool_result.body_raised # "") =>
        /\ tool_result.raised = ""
        /\ FailureFlavoured(tool_result.value)

\* C6: a call with a malformed argument mapping returns a text that reports
\* the failure and never raises to the caller.
C6_MalformedArgsReturnFailure ==
    (Called /\ Malformed(tool_call)) =>
        /\ tool_result.raised = ""
        /\ FailureFlavoured(tool_result.value)

\* C8: calculate on a text that is not an arithmetic expression returns a
\* failure and does nothing else.
C8_CalculateIsRestricted ==
    [][ ( /\ tool_call'.tool = "calculate"
          /\ DOMAIN tool_call'.args = {"expression"}
          /\ tool_call'.args["expression"].type = "str"
          /\ ~IsArithmetic(PyParse(tool_call'.args["expression"].s)) ) =>
            /\ tool_result'.raised = ""
            /\ FailureFlavoured(tool_result'.value)
            /\ effects' = effects
      ]_vars

====
